---- MODULE Spec2Model ----
(***************************************************************************)
(* Beam planning: solve() of src/py/solution.py assigns users to           *)
(* satellites and beam colors in two passes.  The model keeps the two      *)
(* module-level registries (User.users, Satellite.satellites) as state,    *)
(* because they outlive a call of solve, and follows the loops of solve    *)
(* one iteration at a time.                                                *)
(***************************************************************************)
EXTENDS Integers, Sequences, FiniteSets, TLC

(***************************************************************************)
(* Program constants.                                                      *)
(***************************************************************************)
MAX_USERS_PER_SAT == 32

MIN_BEAM_INTERFERENCE == 10

\* one color short
COLORS_three == <<"A", "B", "C">>

COLORS == <<"A", "B", "C", "D">>

\* Python's None, the color of a User that was never assigned.
None == "None"

(***************************************************************************)
(* Bounds of the model.                                                    *)
(***************************************************************************)
\* longest prefix of SpreadRoster passed to one call
MaxSpread == 34

\* size of the roster of pairwise interfering users
MaxCluster == 5

\* number of solve calls made by one process in SpecCalls
MaxCalls == 3

\* user ids of the one-user mappings passed in SpecCalls
MaxProcIds == 2

(***************************************************************************)
(* Natural numbers of any size, as the sequence of their digits in base    *)
(* Base, lowest digit first and no zero as highest digit.  The comparisons *)
(* of angles below are made on such numbers, so that they are exact.       *)
(***************************************************************************)
Base == 10000

RECURSIVE Big(_)
Big(n) == IF n = 0 THEN <<>> ELSE <<n % Base>> \o Big(n \div Base)

RECURSIVE BigTrim(_)
BigTrim(a) ==
    IF a # <<>> /\ a[Len(a)] = 0 THEN BigTrim(SubSeq(a, 1, Len(a) - 1)) ELSE a

RECURSIVE BigAddCarry(_, _, _)
BigAddCarry(a, b, carry) ==
    IF a = <<>> /\ b = <<>>
    THEN Big(carry)
    ELSE LET x == (IF a = <<>> THEN 0 ELSE Head(a))
                      + (IF b = <<>> THEN 0 ELSE Head(b)) + carry
         IN  <<x % Base>> \o BigAddCarry(IF a = <<>> THEN <<>> ELSE Tail(a),
                                         IF b = <<>> THEN <<>> ELSE Tail(b),
                                         x \div Base)

BigAdd(a, b) == BigAddCarry(a, b, 0)

\* a times the digit k
RECURSIVE BigScale(_, _, _)
BigScale(a, k, carry) ==
    IF a = <<>>
    THEN Big(carry)
    ELSE LET x == Head(a) * k + carry
         IN  <<x % Base>> \o BigScale(Tail(a), k, x \div Base)

RECURSIVE BigMul(_, _)
BigMul(a, b) ==
    IF a = <<>> \/ b = <<>>
    THEN <<>>
    ELSE BigTrim(BigAdd(BigScale(a, Head(b), 0), <<0>> \o BigMul(a, Tail(b))))

BigLess(a, b) ==
    IF Len(a) # Len(b)
    THEN Len(a) < Len(b)
    ELSE \E i \in 1..Len(a) :
             /\ a[i] < b[i]
             /\ \A j \in (i + 1)..Len(a) : a[j] = b[j]

(***************************************************************************)
(* util.Vector3, on integer coordinates.  With d the dot product of the    *)
(* two rays from self and m the product of their squared lengths, the      *)
(* cosine of the angle between them is d / sqrt(m).                        *)
(***************************************************************************)
Origin == <<0, 0, 0>>

Sub(a, b) == <<a[1] - b[1], a[2] - b[2], a[3] - b[3]>>

Dot(a, b) == a[1] * b[1] + a[2] * b[2] + a[3] * b[3]

MagSq(a) == Dot(a, a)

\* d / sqrt(P Q) <= -sqrt(1/2), for d < 0: 2 d^2 >= P Q.  Computed on machine
\* integers when the squared lengths P and Q are small enough for that.
CosAtMostCos135(d, P, Q) ==
    IF P <= 30000 /\ Q <= 30000
    THEN 2 * d * d >= P * Q
    ELSE ~BigLess(BigScale(BigMul(Big(-d), Big(-d)), 2, 0), BigMul(Big(P), Big(Q)))

\* d / sqrt(m) > cos(10 degrees), for d > 0 and m = P Q as digits.  The angle is
\* less than 10 degrees when three times the angle is less than 30 degrees, that
\* is when the angle is less than 30 degrees, 4 d^2 > 3 m, and the cosine
\* c (4 c^2 - 3) of three times the angle is more than sqrt(3/4), which is
\* 4 d^2 (4 d^2 - 3 m)^2 > 3 m^3; with x = 4 d^2 and y = 3 m and the square
\* expanded, x^3 + x y^2 > 3 m^3 + 2 x^2 y.
CosAboveCos10Exact(d, m) ==
    LET x == BigScale(BigMul(Big(d), Big(d)), 4, 0)
        y == BigScale(m, 3, 0)
    IN  /\ BigLess(y, x)
        /\ BigLess(BigAdd(BigScale(BigMul(m, BigMul(m, m)), 3, 0),
                          BigScale(BigMul(BigMul(x, x), y), 2, 0)),
                   BigAdd(BigMul(x, BigMul(x, x)), BigMul(x, BigMul(y, y))))

\* the same.  The square of cos(10 degrees), 0.96984631..., lies between 32/33 and
\* 193/199: when P and Q are small enough for machine integers and d^2 / (P Q) is
\* not between these two, they decide; every other case is computed exactly.
CosAboveCos10(d, P, Q) ==
    IF P <= 3000 /\ Q <= 3000 /\ 199 * d * d > 193 * P * Q
    THEN TRUE
    ELSE IF P <= 3000 /\ Q <= 3000 /\ 33 * d * d <= 32 * P * Q
         THEN FALSE
         ELSE CosAboveCos10Exact(d, BigMul(Big(P), Big(Q)))

\* self.angle_between(a, b) >= 135, the angle at self between a and b.  util is
\* not among the sources; as visibility is documented, the comparison includes
\* the angle of exactly 135 degrees (beam at exactly 45 degrees from the zenith)
\* and is false when one of the two rays has length zero, where there is no angle
AngleAtLeast135(self, a, b) ==
    LET p == Sub(a, self)
        q == Sub(b, self)
        d == Dot(p, q)
    IN  IF MagSq(p) = 0 \/ MagSq(q) = 0
        THEN FALSE
        ELSE d < 0 /\ CosAtMostCos135(d, MagSq(p), MagSq(q))

\* self.angle_between(a, b) < deg, for deg = MIN_BEAM_INTERFERENCE
AngleLessThan(self, a, b, deg) ==
    LET p == Sub(a, self)
        q == Sub(b, self)
        d == Dot(p, q)
    IN  deg = 10 /\ d > 0 /\ CosAboveCos10(d, MagSq(p), MagSq(q))

(***************************************************************************)
(* Satellite._is_beam_within_45_degrees and _is_user_within_10_degrees.    *)
(***************************************************************************)
is_beam_within_45_degrees(sat_vector, user) ==
    AngleAtLeast135(user, Origin, sat_vector)

is_user_within_10_degrees(sat_vector, user_1, user_2) ==
    LET vec1 == Sub(user_1, sat_vector)
        vec2 == Sub(user_2, sat_vector)
    IN  IF MagSq(vec1) = 0 \/ MagSq(vec2) = 0
        THEN FALSE
        ELSE AngleLessThan(sat_vector, user_1, user_2, MIN_BEAM_INTERFERENCE)

(***************************************************************************)
(* The registries are Python dicts: a sequence of records in insertion     *)
(* order; storing under a key that is present replaces the value in place. *)
(***************************************************************************)
HasKey(reg, id) == \E i \in 1..Len(reg) : reg[i].id = id

IndexOf(reg, id) == CHOOSE i \in 1..Len(reg) : reg[i].id = id

Get(reg, id) == reg[IndexOf(reg, id)]

Put(reg, rec) ==
    IF HasKey(reg, rec.id)
    THEN [reg EXCEPT ![IndexOf(reg, rec.id)] = rec]
    ELSE Append(reg, rec)

Keys(reg) == {reg[i].id : i \in 1..Len(reg)}

\* User.__init__
NewUser(id, vector) ==
    [id |-> id, vector |-> vector, assigned |-> FALSE, color |-> None]

\* the comprehension of Satellite.__init__ without its condition
VisibleUsers_unfiltered(U, sat_vector) == [i \in 1..Len(U) |-> U[i].id]

\* the comprehension of Satellite.__init__
VisibleUsers(U, sat_vector) ==
    LET sel == SelectSeq(U, LAMBDA r : is_beam_within_45_degrees(sat_vector, r.vector))
    IN  [i \in 1..Len(sel) |-> sel[i].id]

\* Satellite.__init__
NewSatellite(U, id, vector) ==
    [id |-> id, vector |-> vector, assignments |-> <<>>,
     visible_users |-> VisibleUsers(U, vector)]

\* the first loop of solve: the keys of a mapping are distinct, so each registered
\* key is replaced where it stands and the new keys follow in the mapping's order
RegisterUsers(U, us) ==
    LET fresh == SelectSeq(us, LAMBDA it : ~HasKey(U, it.id))
    IN  [i \in 1..Len(U) |->
            IF HasKey(us, U[i].id)
            THEN NewUser(U[i].id, Get(us, U[i].id).vector)
            ELSE U[i]]
        \o [i \in 1..Len(fresh) |-> NewUser(fresh[i].id, fresh[i].vector)]

\* the second loop of solve, run when every user of the call is registered
RegisterSatellites(S, U, ss) ==
    LET fresh == SelectSeq(ss, LAMBDA it : ~HasKey(S, it.id))
    IN  [i \in 1..Len(S) |->
            IF HasKey(ss, S[i].id)
            THEN NewSatellite(U, S[i].id, Get(ss, S[i].id).vector)
            ELSE S[i]]
        \o [i \in 1..Len(fresh) |-> NewSatellite(U, fresh[i].id, fresh[i].vector)]

(***************************************************************************)
(* Methods of Satellite.  U is User.users, sat a Satellite record.         *)
(***************************************************************************)
\* available_users without the test of assigned
available_users_unfiltered(sat, U) == sat.visible_users

\* available_users without the last visible user
available_users_but_last(sat, U) ==
    SelectSeq(SubSeq(sat.visible_users, 1, Len(sat.visible_users) - 1),
              LAMBDA id : ~Get(U, id).assigned)

available_users(sat, U) ==
    SelectSeq(sat.visible_users, LAMBDA id : ~Get(U, id).assigned)

\* available without the capacity test
available_any_load(sat, U, user_id, color) ==
    \A i \in 1..Len(sat.assignments) :
        Get(U, sat.assignments[i]).color = color
        => ~is_user_within_10_degrees(sat.vector, Get(U, user_id).vector,
                                      Get(U, sat.assignments[i]).vector)

\* available with the capacity test off by one
available_one_more(sat, U, user_id, color) ==
    /\ Len(sat.assignments) <= MAX_USERS_PER_SAT
    /\ available_any_load(sat, U, user_id, color)

available(sat, U, user_id, color) ==
    /\ Len(sat.assignments) < MAX_USERS_PER_SAT
    /\ \A i \in 1..Len(sat.assignments) :
          Get(U, sat.assignments[i]).color = color
          => ~is_user_within_10_degrees(sat.vector, Get(U, user_id).vector,
                                        Get(U, sat.assignments[i]).vector)

\* assign, its effect on User.users
assign_user(U, user_id, color) ==
    [U EXCEPT ![IndexOf(U, user_id)] = [@ EXCEPT !.assigned = TRUE, !.color = color]]

\* assign, its effect on the satellite
assign_sat(sat, user_id) ==
    [sat EXCEPT !.assignments = Append(@, user_id)]

\* _unassign: pops while enumerating, so the element after a popped one is skipped
RECURSIVE unassign_from(_, _, _)
unassign_from(list, user_id, index) ==
    IF index > Len(list) THEN list
    ELSE IF list[index] = user_id
         THEN unassign_from(SubSeq(list, 1, index - 1) \o SubSeq(list, index + 1, Len(list)),
                            user_id, index + 1)
         ELSE unassign_from(list, user_id, index + 1)

unassign(sat, user_id) ==
    [sat EXCEPT !.assignments = unassign_from(@, user_id, 1)]

\* reassign that does not assign again
reassign_sat_dropped(sat, user_id) == unassign(sat, user_id)

\* reassign, its effect on the satellite (its effect on User.users is assign_user)
reassign_sat(sat, user_id) == assign_sat(unassign(sat, user_id), user_id)

conflicts(sat, U, user_id, color) ==
    SelectSeq(sat.assignments,
              LAMBDA id : /\ Get(U, id).color = color
                          /\ is_user_within_10_degrees(sat.vector, Get(U, user_id).vector,
                                                       Get(U, id).vector))

\* can_make_room_for that does not ask whether the conflicting users can move
can_make_room_for_any_conflict(sat, U, user_id, color) ==
    Len(conflicts(sat, U, user_id, color)) > 0

\* can_make_room_for that does not ask for a conflict
can_make_room_for_without_conflict(sat, U, user_id, color) ==
    LET conflicting_users == conflicts(sat, U, user_id, color)
    IN  \A i \in 1..Len(conflicting_users) :
            \E k \in 1..Len(COLORS) :
                /\ color # COLORS[k]
                /\ available(sat, U, conflicting_users[i], COLORS[k])

can_make_room_for(sat, U, user_id, color) ==
    LET conflicting_users == conflicts(sat, U, user_id, color)
    IN  /\ Len(conflicting_users) > 0
        /\ \A i \in 1..Len(conflicting_users) :
              \E k \in 1..Len(COLORS) :
                  /\ color # COLORS[k]
                  /\ available(sat, U, conflicting_users[i], COLORS[k])

\* the colors other than color, available or not
OtherColors_unchecked(sat, U, user_id, color) ==
    {k \in 1..Len(COLORS) : color # COLORS[k]}

\* the colors other than color that are available to user_id, as indices of COLORS
OtherColors(sat, U, user_id, color) ==
    {k \in 1..Len(COLORS) : color # COLORS[k] /\ available(sat, U, user_id, COLORS[k])}

\* the last instead of the first
Max(s) == CHOOSE x \in s : \A y \in s : x >= y

Min(s) == CHOOSE x \in s : \A y \in s : x <= y

\* make_room_for: a dict, here the sequence of its items
RECURSIVE make_room_items(_, _, _, _, _)
make_room_items(sat, U, cs, color, items) ==
    IF cs = <<>> THEN items
    ELSE LET oc == OtherColors(sat, U, Head(cs), color)
         IN  make_room_items(sat, U, Tail(cs), color,
                 IF oc = {} THEN items
                 ELSE Put(items, [id |-> Head(cs), color |-> COLORS[Min(oc)]]))

\* make_room_for that leaves the first conflicting user where it is
make_room_for_but_first(sat, U, user_id, color) ==
    make_room_items(sat, U, Tail(conflicts(sat, U, user_id, color)), color, <<>>)

make_room_for(sat, U, user_id, color) ==
    make_room_items(sat, U, conflicts(sat, U, user_id, color), color, <<>>)

\* solution[user_id] = (satellite.id, color)
Record(sol, user_id, sat_id, color) ==
    [u \in DOMAIN sol \cup {user_id} |->
        IF u = user_id THEN <<sat_id, color>> ELSE sol[u]]

(***************************************************************************)
(* Arguments of solve.  A mapping is the sequence of its items.            *)
(***************************************************************************)
S1 == <<0, 0, 100>>

S2 == <<40, 0, 100>>

Item(id, vector) == [id |-> id, vector |-> vector]

\* users on a line below S1, at height 70
Line(xs) == [i \in 1..Len(xs) |-> Item(i, <<xs[i], 0, 70>>)]

\* passed whole and in this order, the first three rosters make the second pass
\* relocate: the first two place their last user more than once, the first moves
\* two users for one placement, the third places its last user once; with the
\* fourth, two users are in the way of the last one and only one of them can move
LineRosters ==
    <<Line(<<0, 1, 11, 12, 4, 6, 9>>),
      Line(<<12, 11, 8, 9, 2, 3, 5>>),
      Line(<<0, 1, 2, 3, 7, 6>>),
      Line(<<14, 5, 15, 10, 11, 9>>)>>

\* users that interfere pairwise, seen from S1 and from S2
ClusterRoster == [i \in 1..MaxCluster |-> Item(i, <<7 + i, 0, 70>>)]

\* users visible from S1 of which no two interfere there
SpreadRoster ==
    <<Item(1, <<0, 0, 88>>), Item(2, <<-2, 0, 90>>), Item(3, <<0, -2, 90>>),
      Item(4, <<0, 2, 90>>), Item(5, <<2, 0, 90>>), Item(6, <<-2, -2, 90>>),
      Item(7, <<-2, 2, 90>>), Item(8, <<2, -2, 90>>), Item(9, <<2, 2, 90>>),
      Item(10, <<-4, -1, 90>>), Item(11, <<-1, -4, 90>>), Item(12, <<-1, 4, 90>>),
      Item(13, <<4, -1, 90>>), Item(14, <<-5, 2, 88>>), Item(15, <<2, -5, 88>>),
      Item(16, <<2, 5, 88>>), Item(17, <<5, 2, 88>>), Item(18, <<-4, -4, 89>>),
      Item(19, <<-4, 5, 88>>), Item(20, <<5, -4, 88>>), Item(21, <<4, 4, 90>>),
      Item(22, <<-5, 0, 92>>), Item(23, <<0, -5, 92>>), Item(24, <<0, 5, 92>>),
      Item(25, <<5, 0, 92>>), Item(26, <<-6, -3, 90>>), Item(27, <<-3, -6, 90>>),
      Item(28, <<-8, 3, 88>>), Item(29, <<-3, 8, 88>>), Item(30, <<3, -8, 88>>),
      Item(31, <<3, 8, 88>>), Item(32, <<8, -3, 88>>), Item(33, <<8, 3, 88>>),
      Item(34, <<-6, 5, 90>>), Item(35, <<5, -6, 90>>), Item(36, <<-4, -4, 93>>)>>

\* the items of roster whose index is in keep, in the roster's order
Restrict(roster, keep) == SelectSeq(roster, LAMBDA it : it.id \in keep)

SubMappings(roster) == {Restrict(roster, keep) : keep \in SUBSET (1..Len(roster))}

Prefixes(roster, n) == {SubSeq(roster, 1, k) : k \in 0..n}

\* passed whole, the second pass places user 9 on the first color by moving users
\* 1 and 4 away from it, and then leaves out user 12, which no user on that color
\* interferes with any more
CrowdedRoster == Line(<<8, 0, 11, 15, 4, 2, 7, 14, 12, 9, 10, 6>>)

\* passed whole with S2 before S1, the first pass fills the four colors of both
\* satellites around user 9, which both see, and leaves it out
SharedRoster == Line(<<13, 14, 4, 11, 3, 5, 15, 7, 6>>)

RunUsers ==
    UNION {SubMappings(LineRosters[r]) : r \in 1..Len(LineRosters)}
        \cup SubMappings(ClusterRoster)
        \cup Prefixes(SpreadRoster, MaxSpread)
        \cup Prefixes(CrowdedRoster, Len(CrowdedRoster))
        \cup Prefixes(SharedRoster, Len(SharedRoster))

\* the users mappings of the runs whose termination is checked
FairUsers ==
    UNION {SubMappings(LineRosters[r]) : r \in 1..Len(LineRosters)}
        \cup SubMappings(ClusterRoster)

RunSats ==
    {<<>>, <<Item(1, S1)>>, <<Item(2, S2)>>,
     <<Item(1, S1), Item(2, S2)>>, <<Item(2, S2), Item(1, S1)>>}

\* the arguments of TestSolve.test_1
Test1Users == <<Item(1, <<6371, 0, 0>>), Item(2, <<6372, 0, 0>>)>>

Test1Sats == <<Item(1, <<6921, 0, 0>>)>>

\* a position that S1 does not see
Far == <<20, 0, 70>>

ProcUsers ==
    {<<>>, LineRosters[1]}
        \cup {<<Item(i, v)>> : i \in 1..MaxProcIds, v \in {LineRosters[1][1].vector, Far}}

ProcSats == {<<>>, <<Item(1, S1)>>}

(***************************************************************************)
(* State.                                                                  *)
(***************************************************************************)
VARIABLES
    User_users,            \* User.users
    Satellite_satellites,  \* Satellite.satellites
    users, sats,           \* the arguments of the running call
    solution,              \* the dict solve builds and returns
    pc,                    \* where solve is
    sat_i,                 \* position of the loop over Satellite.satellites.values()
    scan,                  \* satellite.available_users, as read when the user loop began
    user_i,                \* position of the loop over scan
    color_i,               \* position of the second pass's loop over COLORS
    reassignments,         \* items of make_room_for's dict not yet applied
    calls,                 \* completed calls of solve
    returned               \* arguments and result of each completed call, in order

vars == <<User_users, Satellite_satellites, users, sats, solution, pc, sat_i, scan,
          user_i, color_i, reassignments, calls, returned>>

loop_vars == <<sat_i, scan, user_i, color_i, reassignments>>

\* state after the module is imported
Init ==
    /\ User_users = <<>>
    /\ Satellite_satellites = <<>>
    /\ users = <<>>
    /\ sats = <<>>
    /\ solution = <<>>
    /\ pc = "idle"
    /\ sat_i = 1
    /\ scan = <<>>
    /\ user_i = 1
    /\ color_i = 1
    /\ reassignments = <<>>
    /\ calls = 0
    /\ returned = <<>>

\* the satellite and the user the loops are at
satellite == Satellite_satellites[sat_i]

user_id == scan[user_i]

\* solve is called: both registration loops run
Solve(us, ss) ==
    /\ pc = "idle"
    /\ users' = us
    /\ sats' = ss
    /\ solution' = <<>>
    /\ User_users' = RegisterUsers(User_users, us)
    /\ Satellite_satellites' =
           RegisterSatellites(Satellite_satellites, RegisterUsers(User_users, us), ss)
    /\ pc' = "pass1_sat"
    /\ sat_i' = 1
    /\ scan' = <<>>
    /\ user_i' = 1
    /\ color_i' = 1
    /\ reassignments' = <<>>
    /\ UNCHANGED <<calls, returned>>

\* the one call of a process that calls solve once
SolveOnce ==
    /\ calls = 0
    /\ \/ \E us \in RunUsers, ss \in RunSats : Solve(us, ss)
       \/ Solve(Test1Users, Test1Sats)

\* a call of a process that calls solve repeatedly
SolveAgain ==
    /\ calls < MaxCalls
    /\ \E us \in ProcUsers, ss \in ProcSats : Solve(us, ss)

\* first pass, next satellite: available_users is read once
Pass1Sat ==
    /\ pc = "pass1_sat"
    /\ IF sat_i <= Len(Satellite_satellites)
       THEN /\ scan' = available_users(satellite, User_users)
            /\ user_i' = 1
            /\ pc' = "pass1_user"
            /\ UNCHANGED sat_i
       ELSE /\ pc' = "pass2_sat"
            /\ sat_i' = 1
            /\ UNCHANGED <<scan, user_i>>
    /\ UNCHANGED <<User_users, Satellite_satellites, users, sats, solution, color_i,
                   reassignments, calls, returned>>

\* the available colors but the first of COLORS
AvailableColors_after_first ==
    {k \in 2..Len(COLORS) : available(satellite, User_users, user_id, COLORS[k])}

\* the colors of COLORS, by index, on which satellite can take user_id now
AvailableColors == {k \in 1..Len(COLORS) : available(satellite, User_users, user_id, COLORS[k])}

\* first pass, next user: the first available color, then break
Pass1User ==
    /\ pc = "pass1_user"
    /\ IF user_i <= Len(scan)
       THEN /\ IF AvailableColors # {}
               THEN LET color == COLORS[Min(AvailableColors)]
                    IN  /\ User_users' = assign_user(User_users, user_id, color)
                        /\ Satellite_satellites' =
                               [Satellite_satellites EXCEPT
                                   ![sat_i] = assign_sat(@, user_id)]
                        /\ solution' = Record(solution, user_id, satellite.id, color)
               ELSE UNCHANGED <<User_users, Satellite_satellites, solution>>
            /\ user_i' = user_i + 1
            /\ UNCHANGED <<pc, sat_i>>
       ELSE /\ sat_i' = sat_i + 1
            /\ pc' = "pass1_sat"
            /\ UNCHANGED <<User_users, Satellite_satellites, solution, user_i>>
    /\ UNCHANGED <<users, sats, scan, color_i, reassignments, calls, returned>>

\* a second pass that starts the passes over while a visible user is unassigned
Pass2Sat_until_stable ==
    /\ pc = "pass2_sat"
    /\ IF sat_i <= Len(Satellite_satellites)
       THEN /\ scan' = available_users(satellite, User_users)
            /\ user_i' = 1
            /\ pc' = "pass2_user"
            /\ UNCHANGED sat_i
       ELSE /\ pc' = IF \E i \in 1..Len(Satellite_satellites) :
                           available_users(Satellite_satellites[i], User_users) # <<>>
                     THEN "pass1_sat" ELSE "return"
            /\ sat_i' = 1
            /\ UNCHANGED <<scan, user_i>>
    /\ UNCHANGED <<User_users, Satellite_satellites, users, sats, solution, color_i,
                   reassignments, calls, returned>>

\* second pass, next satellite
Pass2Sat ==
    /\ pc = "pass2_sat"
    /\ IF sat_i <= Len(Satellite_satellites)
       THEN /\ scan' = available_users(satellite, User_users)
            /\ user_i' = 1
            /\ pc' = "pass2_user"
            /\ UNCHANGED sat_i
       ELSE /\ pc' = "return"
            /\ UNCHANGED <<sat_i, scan, user_i>>
    /\ UNCHANGED <<User_users, Satellite_satellites, users, sats, solution, color_i,
                   reassignments, calls, returned>>

\* second pass, next user: the loop over COLORS begins
Pass2User ==
    /\ pc = "pass2_user"
    /\ IF user_i <= Len(scan)
       THEN /\ color_i' = 1
            /\ pc' = "pass2_color"
            /\ UNCHANGED sat_i
       ELSE /\ sat_i' = sat_i + 1
            /\ pc' = "pass2_sat"
            /\ UNCHANGED color_i
    /\ UNCHANGED <<User_users, Satellite_satellites, users, sats, solution, scan, user_i,
                   reassignments, calls, returned>>

\* second pass, next color: can_make_room_for, then make_room_for
Pass2Color ==
    /\ pc = "pass2_color"
    /\ IF color_i <= Len(COLORS)
       THEN IF can_make_room_for(satellite, User_users, user_id, COLORS[color_i])
            THEN /\ reassignments' =
                        make_room_for(satellite, User_users, user_id, COLORS[color_i])
                 /\ pc' = "pass2_reassign"
                 /\ UNCHANGED <<color_i, user_i>>
            ELSE /\ color_i' = color_i + 1
                 /\ UNCHANGED <<pc, user_i, reassignments>>
       ELSE /\ user_i' = user_i + 1
            /\ pc' = "pass2_user"
            /\ UNCHANGED <<color_i, reassignments>>
    /\ UNCHANGED <<User_users, Satellite_satellites, users, sats, solution, sat_i, scan,
                   calls, returned>>

\* second pass: one conflicting user is moved to its new color
Pass2Reassign ==
    /\ pc = "pass2_reassign"
    /\ reassignments # <<>>
    /\ LET conflicting_user_id == Head(reassignments).id
           new_color == Head(reassignments).color
       IN  /\ User_users' = assign_user(User_users, conflicting_user_id, new_color)
           /\ Satellite_satellites' =
                  [Satellite_satellites EXCEPT
                      ![sat_i] = reassign_sat(@, conflicting_user_id)]
           /\ solution' = Record(solution, conflicting_user_id, satellite.id, new_color)
    /\ reassignments' = Tail(reassignments)
    /\ UNCHANGED <<users, sats, pc, sat_i, scan, user_i, color_i, calls, returned>>

\* second pass: the user is assigned to the color room was made on; no break follows
Pass2Assign ==
    /\ pc = "pass2_reassign"
    /\ reassignments = <<>>
    /\ User_users' = assign_user(User_users, user_id, COLORS[color_i])
    /\ Satellite_satellites' =
           [Satellite_satellites EXCEPT ![sat_i] = assign_sat(@, user_id)]
    /\ solution' = Record(solution, user_id, satellite.id, COLORS[color_i])
    /\ color_i' = color_i + 1
    /\ pc' = "pass2_color"
    /\ UNCHANGED <<users, sats, sat_i, scan, user_i, reassignments, calls, returned>>

\* return solution
Return ==
    /\ pc = "return"
    /\ returned' = Append(returned, [users |-> users, sats |-> sats, solution |-> solution])
    /\ calls' = calls + 1
    /\ pc' = "idle"
    /\ UNCHANGED <<User_users, Satellite_satellites, users, sats, solution, loop_vars>>

Step ==
    \/ Pass1Sat
    \/ Pass1User
    \/ Pass2Sat
    \/ Pass2User
    \/ Pass2Color
    \/ Pass2Reassign
    \/ Pass2Assign
    \/ Return

Next == SolveOnce \/ Step

NextCalls == SolveAgain \/ Step

\* one call of solve in a fresh process
Spec == Init /\ [][Next]_vars

\* up to MaxCalls calls of solve in one process
SpecCalls == Init /\ [][NextCalls]_vars

\* the one call of a process that calls solve once, on the line and cluster rosters
SolveOnceFair ==
    /\ calls = 0
    /\ \E us \in FairUsers, ss \in RunSats : Solve(us, ss)

NextFair == SolveOnceFair \/ Step

\* one call of solve in a fresh process, whose started call keeps running: the
\* interpreter executes the next statement of solve
SpecFair == Init /\ [][NextFair]_vars /\ WF_vars(Step)

(***************************************************************************)
(* Vocabulary of the properties.                                           *)
(***************************************************************************)
\* the users a satellite lists
Listed(sat) == {sat.assignments[i] : i \in 1..Len(sat.assignments)}

SatIndices == 1..Len(Satellite_satellites)

\* position and recorded color of a registered user
Pos(u) == Get(User_users, u).vector

ColorOf(u) == Get(User_users, u).color

\* the users the Solution maps to the satellite with this id
MappedTo(sat_id) == {u \in DOMAIN solution : solution[u][1] = sat_id}

\* interferes(pos(s), pos(u1), pos(u2)) and visible(pos(u), pos(s)) of two registered users
Interfere(sat, u1, u2) == is_user_within_10_degrees(sat.vector, Pos(u1), Pos(u2))

Visible(sat, u) == is_beam_within_45_degrees(sat.vector, Pos(u))

(***************************************************************************)
(* C1  Capacity: in every state of a solve call a satellite lists at most  *)
(* MAX_USERS_PER_SAT users, and the Solution maps at most that many users  *)
(* to one satellite.                                                       *)
(***************************************************************************)
C1_Capacity ==
    \A i \in SatIndices :
        /\ Len(Satellite_satellites[i].assignments) <= MAX_USERS_PER_SAT
        /\ Cardinality(MappedTo(Satellite_satellites[i].id)) <= MAX_USERS_PER_SAT

\* solve returns with a satellite that is full and has turned a visible user away
C1_Witness ==
    /\ pc = "return"
    /\ \E i \in SatIndices :
          /\ Len(Satellite_satellites[i].assignments) = MAX_USERS_PER_SAT
          /\ Cardinality(MappedTo(Satellite_satellites[i].id)) = MAX_USERS_PER_SAT
          /\ \E k \in 1..Len(Satellite_satellites[i].visible_users) :
                ~Get(User_users, Satellite_satellites[i].visible_users[k]).assigned

(***************************************************************************)
(* C2  No interference: in every state of a solve call, the states between *)
(* the relocations of one placement included, no two distinct users that   *)
(* a satellite lists on one color, and no two that the Solution maps to    *)
(* one satellite and color, interfere there.                               *)
(***************************************************************************)
C2_NoInterference ==
    /\ \A i \in SatIndices :
          \A u1, u2 \in Listed(Satellite_satellites[i]) :
              (u1 # u2 /\ ColorOf(u1) = ColorOf(u2))
              => ~Interfere(Satellite_satellites[i], u1, u2)
    /\ \A u1, u2 \in DOMAIN solution :
          (u1 # u2 /\ solution[u1] = solution[u2])
          => ~Interfere(Get(Satellite_satellites, solution[u1][1]), u1, u2)

\* two users that both interfere with the user being placed have just been moved,
\* one after the other, to the same color
C2_Witness ==
    /\ pc = "pass2_reassign"
    /\ reassignments = <<>>
    /\ LET list == satellite.assignments
           n == Len(list)
       IN  /\ n >= 2
           /\ list[n] # list[n - 1]
           /\ ColorOf(list[n]) = ColorOf(list[n - 1])
           /\ ColorOf(list[n]) # COLORS[color_i]
           /\ Interfere(satellite, list[n], user_id)
           /\ Interfere(satellite, list[n - 1], user_id)

(***************************************************************************)
(* C3  Visibility: in every state of a solve call each user a satellite    *)
(* lists, and each user the Solution maps to a satellite, is visible from  *)
(* that satellite.                                                         *)
(***************************************************************************)
C3_Visibility ==
    /\ \A i \in SatIndices :
          \A u \in Listed(Satellite_satellites[i]) : Visible(Satellite_satellites[i], u)
    /\ \A u \in DOMAIN solution :
          Visible(Get(Satellite_satellites, solution[u][1]), u)

\* solve returns having placed a user on one satellite and having left out a user
\* that no satellite sees, although a satellite has an available color for it
C3_Witness ==
    /\ pc = "return"
    /\ solution # <<>>
    /\ \E u \in Keys(User_users) :
          /\ u \notin DOMAIN solution
          /\ \A i \in SatIndices : ~Visible(Satellite_satellites[i], u)
          /\ \E i \in SatIndices :
                available(Satellite_satellites[i], User_users, u, COLORS[1])

(***************************************************************************)
(* C4  In every state of one solve call a satellite s lists a user u with  *)
(* recorded color c exactly when the Solution holds u -> (s, c), and no    *)
(* user is listed by two satellites.                                       *)
(***************************************************************************)
C4_ListedIffMapped ==
    /\ \A i \in SatIndices :
          \A u \in Keys(User_users) :
              u \in Listed(Satellite_satellites[i])
              <=> /\ u \in DOMAIN solution
                  /\ solution[u] = <<Satellite_satellites[i].id, ColorOf(u)>>
    /\ \A i, j \in SatIndices :
          i # j => Listed(Satellite_satellites[i]) \cap Listed(Satellite_satellites[j]) = {}
    /\ DOMAIN solution \subseteq Keys(User_users)

\* solve returns with a user placed that two satellites see
C4_Witness ==
    /\ pc = "return"
    /\ \E u \in DOMAIN solution :
          \E i, j \in SatIndices :
              /\ i # j
              /\ Visible(Satellite_satellites[i], u)
              /\ Visible(Satellite_satellites[j], u)
              /\ u \in Listed(Satellite_satellites[i])

(***************************************************************************)
(* C5  Determinism: two completed calls of solve with the same users       *)
(* mapping and the same satellites mapping returned the same Solution,     *)
(* whatever calls came before or between them.                             *)
(***************************************************************************)
C5_Deterministic ==
    \A i, j \in 1..Len(returned) :
        (returned[i].users = returned[j].users /\ returned[i].sats = returned[j].sats)
        => returned[i].solution = returned[j].solution

(***************************************************************************)
(* C6  The Solution a call returned mentions only the call's arguments:    *)
(* its keys are users of the call, its satellites are satellites of the    *)
(* call.                                                                   *)
(***************************************************************************)
C6_OwnArguments ==
    \A i \in 1..Len(returned) :
        /\ DOMAIN returned[i].solution \subseteq Keys(returned[i].users)
        /\ \A u \in DOMAIN returned[i].solution :
              returned[i].solution[u][1] \in Keys(returned[i].sats)

(***************************************************************************)
(* Scenarios with one satellite that sees every user.                      *)
(***************************************************************************)
OneSatelliteSeesAll ==
    /\ Len(Satellite_satellites) = 1
    /\ \A u \in Keys(User_users) : Visible(Satellite_satellites[1], u)

PairwiseInterfering ==
    \A u1, u2 \in Keys(User_users) :
        u1 # u2 => Interfere(Satellite_satellites[1], u1, u2)

PairwiseSeparated ==
    \A u1, u2 \in Keys(User_users) :
        u1 # u2 => ~Interfere(Satellite_satellites[1], u1, u2)

Least(a, b) == IF a <= b THEN a ELSE b

(***************************************************************************)
(* C7  With one satellite and at most four users, all visible to it, solve *)
(* returns an entry for every user, on that satellite, and any two users   *)
(* that interfere have different colors.                                   *)
(***************************************************************************)
C7_UpToFourAllPlaced ==
    (pc = "return" /\ OneSatelliteSeesAll /\ Len(User_users) <= 4)
    => /\ DOMAIN solution = Keys(User_users)
       /\ \A u \in DOMAIN solution : solution[u][1] = Satellite_satellites[1].id
       /\ \A u1, u2 \in DOMAIN solution :
             (u1 # u2 /\ Interfere(Satellite_satellites[1], u1, u2))
             => solution[u1][2] # solution[u2][2]

\* four users that interfere pairwise, returned on the four colors
C7_Witness ==
    /\ pc = "return"
    /\ OneSatelliteSeesAll
    /\ PairwiseInterfering
    /\ Len(User_users) = 4
    /\ {solution[u][2] : u \in DOMAIN solution} = {COLORS[k] : k \in 1..4}

(***************************************************************************)
(* C8  With one satellite and n users, all visible to it and interfering   *)
(* pairwise, solve returns exactly min(n, 4) users, on pairwise different  *)
(* colors; they are the first min(n, 4) users, listed as the first pass    *)
(* placed them, and the others are not in the Solution.                    *)
(***************************************************************************)
C8_ClusterFillsFourColors ==
    (pc = "return" /\ OneSatelliteSeesAll /\ PairwiseInterfering)
    => /\ Cardinality(DOMAIN solution) = Least(Len(User_users), 4)
       /\ \A u1, u2 \in DOMAIN solution : u1 # u2 => solution[u1][2] # solution[u2][2]
       /\ Satellite_satellites[1].assignments =
              [i \in 1..Least(Len(User_users), 4) |-> User_users[i].id]
       /\ DOMAIN solution = Listed(Satellite_satellites[1])

\* five users that interfere pairwise: four returned, the fifth left out
C8_Witness ==
    /\ pc = "return"
    /\ OneSatelliteSeesAll
    /\ PairwiseInterfering
    /\ Len(User_users) = 5
    /\ Cardinality(DOMAIN solution) = 4
    /\ User_users[5].id \notin DOMAIN solution

(***************************************************************************)
(* C9  With one satellite and n users, all visible to it and of which no   *)
(* two interfere, solve returns exactly min(n, 32) users.                  *)
(***************************************************************************)
C9_SpreadFillsCapacity ==
    (pc = "return" /\ OneSatelliteSeesAll /\ PairwiseSeparated)
    => Cardinality(DOMAIN solution) = Least(Len(User_users), 32)

\* more than 32 such users: 32 returned, the others left out
C9_Witness ==
    /\ pc = "return"
    /\ OneSatelliteSeesAll
    /\ PairwiseSeparated
    /\ Len(User_users) > 32
    /\ Cardinality(DOMAIN solution) = 32

(***************************************************************************)
(* C10  The first pass places a user on the first satellite, in the order  *)
(* of registration, that has an available color for it when it scans the   *)
(* user: a satellite scans only unassigned users and places the scanned    *)
(* user exactly when it has an available color for it, and while the first *)
(* pass runs no placed user is visible from an earlier satellite that has  *)
(* an available color for it.                                              *)
(***************************************************************************)
HasChannel(sat, u) == \E k \in 1..4 : available(sat, User_users, u, COLORS[k])

InPass1 == pc \in {"pass1_sat", "pass1_user"}

C10_FirstSatellite ==
    /\ [](InPass1 =>
            \A u \in DOMAIN solution :
                \A j \in SatIndices :
                    (j < IndexOf(Satellite_satellites, solution[u][1])
                        /\ Visible(Satellite_satellites[j], u))
                    => ~HasChannel(Satellite_satellites[j], u))
    /\ [][(pc = "pass1_user" /\ user_i <= Len(scan)) =>
            /\ ~Get(User_users, user_id).assigned
            /\ user_id \notin DOMAIN solution
            /\ IF HasChannel(satellite, user_id)
               THEN /\ user_id \in DOMAIN solution'
                    /\ solution'[user_id][1] = satellite.id
               ELSE solution' = solution]_vars

\* the first pass has ended: a user that both satellites see is on the first, and
\* another is on the second because the first had no color left for it
C10_Witness ==
    /\ pc = "pass2_sat"
    /\ sat_i = 1
    /\ Len(Satellite_satellites) = 2
    /\ \E u \in Listed(Satellite_satellites[1]) : Visible(Satellite_satellites[2], u)
    /\ \E u \in Listed(Satellite_satellites[2]) :
          /\ Visible(Satellite_satellites[1], u)
          /\ ~HasChannel(Satellite_satellites[1], u)

(***************************************************************************)
(* The two passes.                                                         *)
(***************************************************************************)
InPass2 == pc \in {"pass2_sat", "pass2_user", "pass2_color", "pass2_reassign"}

Running == pc # "idle"

(***************************************************************************)
(* C11  A started call of solve returns.  Until it does the registries     *)
(* keep their keys; each pass takes the satellites one by one in registry  *)
(* order, scanning the users of each exactly once and going on to the next *)
(* one; the second pass starts only when the first has gone through every  *)
(* satellite, the call returns only when the second has, and no pass is    *)
(* ever entered again.                                                     *)
(***************************************************************************)
C11_Terminates ==
    /\ Running ~> (pc = "idle" /\ calls = 1)
    /\ [][Running =>
            /\ Len(Satellite_satellites') = Len(Satellite_satellites)
            /\ Len(User_users') = Len(User_users)
            /\ (pc = "pass1_sat" /\ sat_i <= Len(Satellite_satellites))
                   => (pc' = "pass1_user" /\ sat_i' = sat_i /\ user_i' = 1)
            /\ (pc = "pass1_user" /\ pc' # "pass1_user")
                   => (pc' = "pass1_sat" /\ sat_i' = sat_i + 1 /\ user_i = Len(scan) + 1)
            /\ (InPass1 /\ ~InPass1')
                   => (pc' = "pass2_sat" /\ sat_i = Len(Satellite_satellites) + 1
                          /\ sat_i' = 1)
            /\ (pc = "pass2_sat" /\ sat_i <= Len(Satellite_satellites))
                   => (pc' = "pass2_user" /\ sat_i' = sat_i /\ user_i' = 1)
            /\ (pc = "pass2_user" /\ pc' \notin {"pass2_user", "pass2_color"})
                   => (pc' = "pass2_sat" /\ sat_i' = sat_i + 1 /\ user_i = Len(scan) + 1)
            /\ (pc \in {"pass2_color", "pass2_reassign"}) => (InPass2' /\ sat_i' = sat_i)
            /\ (InPass2 /\ ~InPass2')
                   => (pc' = "return" /\ sat_i = Len(Satellite_satellites) + 1)
            /\ (pc = "return") => (pc' = "idle" /\ solution' = solution)]_vars

\* a call with two satellites has returned after a second pass that moved users
C11_Witness ==
    /\ pc = "idle"
    /\ calls = 1
    /\ Len(returned[1].sats) = 2
    /\ returned[1].solution = solution
    /\ \E i \in SatIndices :
          LET list == Satellite_satellites[i].assignments
          IN  /\ Len(list) >= 6
              /\ \E j \in 1..(Len(list) - 1) : list[j] > list[j + 1]

\* the assigned flag of a registered user
Assigned(u) == Get(User_users, u).assigned

(***************************************************************************)
(* C12  In the second pass a user is placed at most once: when the loop    *)
(* over the colors comes to a color with the scanned user already placed,  *)
(* it makes no room on that color; no user is moved and the scanned user   *)
(* is not placed again.                                                    *)
(***************************************************************************)
C12_PlacedOnceInPass2 ==
    [][(pc = "pass2_color" /\ color_i <= Len(COLORS) /\ Assigned(user_id))
          => /\ pc' # "pass2_reassign"
             /\ UNCHANGED <<User_users, Satellite_satellites, solution>>]_vars

(***************************************************************************)
(* C13  The precondition of assign holds at every placement by solve:      *)
(* when the first pass is about to place the scanned user on an available  *)
(* color, and when the second pass has moved the conflicting users and is  *)
(* about to place the scanned user, that user is unassigned, no satellite  *)
(* lists it, and the satellite lists fewer than MAX_USERS_PER_SAT users.   *)
(***************************************************************************)
C13_AssignPrecondition ==
    ((pc = "pass1_user" /\ user_i <= Len(scan) /\ HasChannel(satellite, user_id))
        \/ (pc = "pass2_reassign" /\ reassignments = <<>>))
    => /\ ~Assigned(user_id)
       /\ user_id \notin DOMAIN solution
       /\ \A i \in SatIndices : user_id \notin Listed(Satellite_satellites[i])
       /\ Len(satellite.assignments) < MAX_USERS_PER_SAT

(***************************************************************************)
(* C14  In every state of a solve call a satellite's list holds each user  *)
(* at most once, so its length is the number of users the Solution maps    *)
(* to the satellite.                                                       *)
(***************************************************************************)
C14_ListedOnce ==
    \A i \in SatIndices :
        LET list == Satellite_satellites[i].assignments
        IN  /\ \A j, k \in 1..Len(list) : j # k => list[j] # list[k]
            /\ Len(list) = Cardinality(MappedTo(Satellite_satellites[i].id))

\* no user the satellite lists on this color interferes with u
NoInterferer(sat, u, color) ==
    \A w \in Listed(sat) : ColorOf(w) = color => ~Interfere(sat, u, w)

(***************************************************************************)
(* C15  During the second pass, between the placements it makes, and when  *)
(* it has ended, no unassigned user is directly placeable: if a satellite  *)
(* sees an unassigned user and lists on some color no user that interferes *)
(* with it, the satellite lists MAX_USERS_PER_SAT users.                   *)
(***************************************************************************)
C15_RefusalLosesNothing ==
    (pc \in {"pass2_sat", "pass2_user", "pass2_color", "return"})
    => \A i \in SatIndices :
           \A u \in Keys(User_users) :
               (~Assigned(u) /\ Visible(Satellite_satellites[i], u))
               => \A k \in 1..Len(COLORS) :
                      NoInterferer(Satellite_satellites[i], u, COLORS[k])
                      => Len(Satellite_satellites[i].assignments) = MAX_USERS_PER_SAT

\* the satellite lists fewer than MAX_USERS_PER_SAT users and, on the k-th color, no
\* user that interferes with u
Fits(sat, u, k) ==
    /\ Len(sat.assignments) < MAX_USERS_PER_SAT
    /\ NoInterferer(sat, u, COLORS[k])

\* a step of solve that leaves every assignment and the Solution as they are
NothingPlaced == UNCHANGED <<User_users, Satellite_satellites, solution>>

\* a step of solve that changes no user but u and no satellite but the sat_i-th
OnlyTouches(us) ==
    /\ \A i \in 1..Len(User_users) :
          User_users[i].id \notin us => User_users'[i] = User_users[i]
    /\ \A i \in SatIndices : i # sat_i => Satellite_satellites'[i] = Satellite_satellites[i]
    /\ Satellite_satellites'[sat_i].visible_users = satellite.visible_users
    /\ \A w \in DOMAIN solution : w \notin us => solution'[w] = solution[w]
    /\ DOMAIN solution' = DOMAIN solution \cup us

(***************************************************************************)
(* C16  The first pass is first-fit over the colors: the step that takes   *)
(* the scanned user places it on the first color, in the order of COLORS,  *)
(* on which the satellite is under capacity and lists no user interfering  *)
(* with it, appends it to the satellite's list and changes nothing else;   *)
(* if there is no such color the step leaves every assignment and the      *)
(* Solution as they are.                                                   *)
(***************************************************************************)
C16_Pass1FirstFit ==
    [][(pc = "pass1_user" /\ user_i <= Len(scan))
          => IF \E k \in 1..Len(COLORS) : Fits(satellite, user_id, k)
             THEN \E k \in 1..Len(COLORS) :
                      /\ Fits(satellite, user_id, k)
                      /\ \A j \in 1..(k - 1) : ~Fits(satellite, user_id, j)
                      /\ solution'[user_id] = <<satellite.id, COLORS[k]>>
                      /\ Get(User_users', user_id) =
                             [Get(User_users, user_id) EXCEPT
                                 !.assigned = TRUE, !.color = COLORS[k]]
                      /\ Satellite_satellites'[sat_i].assignments =
                             Append(satellite.assignments, user_id)
                      /\ OnlyTouches({user_id})
             ELSE NothingPlaced]_vars

\* the first pass has gone through a satellite's users: one was placed on the last
\* color, a later one found no color and was left unassigned
C16_Witness ==
    /\ pc = "pass1_user"
    /\ user_i = Len(scan) + 1
    /\ \E j, k \in 1..Len(scan) :
          /\ j < k
          /\ Assigned(scan[j])
          /\ ColorOf(scan[j]) = COLORS[Len(COLORS)]
          /\ ~Assigned(scan[k])
          /\ \A c \in 1..Len(COLORS) : ~Fits(satellite, scan[k], c)

\* the users the satellite lists on this color that interfere with u
ConflictSet(sat, u, color) ==
    {w \in Listed(sat) : ColorOf(w) = color /\ Interfere(sat, u, w)}

\* the colors other than color, by index, on which sat could take w
Alternatives(sat, w, color) ==
    {k \in 1..Len(COLORS) : COLORS[k] # color /\ Fits(sat, w, k)}

\* room can be made for u on color: somebody is in the way, and each of them can move
Feasible(sat, u, color) ==
    /\ ConflictSet(sat, u, color) # {}
    /\ \A w \in ConflictSet(sat, u, color) : Alternatives(sat, w, color) # {}

(***************************************************************************)
(* C17  The second pass moves and places users only in a placement it has  *)
(* begun, and it begins one for the scanned user on a color exactly when,  *)
(* in that state, some listed user of that color interferes with the       *)
(* scanned user and each such user has another color on which the          *)
(* satellite is under capacity and lists no user interfering with it.      *)
(* Otherwise it goes on to the next color, and every assignment and the    *)
(* Solution are left as they are.                                          *)
(***************************************************************************)
C17_Pass2Feasibility ==
    [][/\ (InPass2 /\ pc # "pass2_reassign") => NothingPlaced
       /\ (pc # "pass2_reassign" /\ pc' = "pass2_reassign")
              => (pc = "pass2_color" /\ color_i <= Len(COLORS))
       /\ (pc = "pass2_color" /\ color_i <= Len(COLORS))
              => IF Feasible(satellite, user_id, COLORS[color_i])
                 THEN /\ pc' = "pass2_reassign"
                      /\ UNCHANGED <<sat_i, scan, user_i, color_i>>
                 ELSE /\ pc' = "pass2_color"
                      /\ color_i' = color_i + 1
                      /\ UNCHANGED <<sat_i, scan, user_i, reassignments>>]_vars

\* an attempt of the scanned user, which is still unplaced, was abandoned: of the
\* users in its way on that color one could move and another could not
C17_Witness ==
    /\ pc = "pass2_color"
    /\ ~Assigned(user_id)
    /\ \E c \in 1..(color_i - 1) :
          /\ \E w \in ConflictSet(satellite, user_id, COLORS[c]) :
                Alternatives(satellite, w, COLORS[c]) = {}
          /\ \E v \in ConflictSet(satellite, user_id, COLORS[c]) :
                Alternatives(satellite, v, COLORS[c]) # {}

\* the first color, in the order of COLORS, other than color on which sat could take w
FirstAlternative(sat, w, color) ==
    COLORS[CHOOSE k \in Alternatives(sat, w, color) :
               \A j \in Alternatives(sat, w, color) : k <= j]

\* the users still to be moved for the placement that has begun
ToMove == {reassignments[i].id : i \in 1..Len(reassignments)}

(***************************************************************************)
(* C18  A placement of the second pass, for the scanned user u on color c  *)
(* of satellite s.  When it begins, the users to move are exactly the      *)
(* listed users of color c that interfere with u, each once, and the       *)
(* target of each is the first color other than c on which, in that state, *)
(* s is under capacity and lists no user interfering with it.  Each step   *)
(* of the placement then moves the next of these users to its target: its  *)
(* Solution entry becomes (s, target), s still lists it, and no other      *)
(* user, satellite or entry changes.  The last step puts u on (s, c) and   *)
(* changes no other user, satellite or entry.                              *)
(***************************************************************************)
C18_ExactlyTheConflictsMove ==
    [][/\ (pc = "pass2_color" /\ pc' = "pass2_reassign")
              => /\ ToMove' = ConflictSet(satellite, user_id, COLORS[color_i])
                 /\ Len(reassignments') = Cardinality(ToMove')
                 /\ \A i \in 1..Len(reassignments') :
                       reassignments'[i].color =
                           FirstAlternative(satellite, reassignments'[i].id, COLORS[color_i])
       /\ (pc = "pass2_reassign" /\ reassignments # <<>>)
              => LET w == reassignments[1].id
                     target == reassignments[1].color
                 IN  /\ target # COLORS[color_i]
                     /\ solution[w][1] = satellite.id
                     /\ solution'[w] = <<satellite.id, target>>
                     /\ Get(User_users', w).color = target
                     /\ Get(User_users', w).assigned
                     /\ Listed(Satellite_satellites'[sat_i]) = Listed(satellite)
                     /\ OnlyTouches({w})
                     /\ reassignments' = Tail(reassignments)
                     /\ pc' = "pass2_reassign"
       /\ (pc = "pass2_reassign" /\ reassignments = <<>>)
              => /\ solution'[user_id] = <<satellite.id, COLORS[color_i]>>
                 /\ Get(User_users', user_id).color = COLORS[color_i]
                 /\ Get(User_users', user_id).assigned
                 /\ Listed(Satellite_satellites'[sat_i]) = Listed(satellite) \cup {user_id}
                 /\ OnlyTouches({user_id})]_vars

\* a placement has ended: the scanned user is on the color, and the two users listed
\* before it were in its way and have been moved, to two different colors
C18_Witness ==
    /\ pc = "pass2_color"
    /\ color_i > 1
    /\ Assigned(user_id)
    /\ ColorOf(user_id) = COLORS[color_i - 1]
    /\ LET list == satellite.assignments
           n == Len(list)
       IN  /\ n >= 3
           /\ list[n] = user_id
           /\ list[n - 1] # list[n - 2]
           /\ Interfere(satellite, user_id, list[n - 1])
           /\ Interfere(satellite, user_id, list[n - 2])
           /\ ColorOf(list[n - 1]) # ColorOf(list[n - 2])
           /\ ColorOf(list[n - 1]) # ColorOf(user_id)
           /\ ColorOf(list[n - 2]) # ColorOf(user_id)

\* list is the beginning of longer
IsPrefix(list, longer) ==
    /\ Len(list) <= Len(longer)
    /\ \A i \in 1..Len(list) : longer[i] = list[i]

(***************************************************************************)
(* C19  No step of a running call loses an assignment: a user in the       *)
(* Solution stays in it with the same satellite, an assigned user stays    *)
(* assigned, and a satellite goes on listing every user it lists.  In the  *)
(* first pass, moreover, entries and colors do not change and the lists    *)
(* only grow at their end.                                                 *)
(***************************************************************************)
C19_NeverLost ==
    [][Running =>
          /\ \A u \in DOMAIN solution :
                /\ u \in DOMAIN solution'
                /\ solution'[u][1] = solution[u][1]
                /\ InPass1 => solution'[u] = solution[u]
          /\ \A u \in Keys(User_users) :
                Assigned(u)
                => /\ Get(User_users', u).assigned
                   /\ InPass1 => Get(User_users', u).color = ColorOf(u)
          /\ \A i \in SatIndices :
                /\ Listed(Satellite_satellites[i]) \subseteq Listed(Satellite_satellites'[i])
                /\ InPass1 => IsPrefix(Satellite_satellites[i].assignments,
                                       Satellite_satellites'[i].assignments)
          /\ Cardinality(DOMAIN solution') >= Cardinality(DOMAIN solution)]_vars

\* the call returns after a second pass that moved a user: the user is listed behind
\* a user that was placed after it, and is in the Solution on the same satellite
C19_Witness ==
    /\ pc = "return"
    /\ \E i \in SatIndices :
          LET list == Satellite_satellites[i].assignments
          IN  \E j \in 2..Len(list) :
                  /\ list[j] < list[j - 1]
                  /\ list[j] \in DOMAIN solution
                  /\ solution[list[j]] = <<Satellite_satellites[i].id, ColorOf(list[j])>>

\* the first pass has gone through every satellite and the second has not begun
Pass1Finished == pc = "pass2_sat" /\ sat_i = 1

(***************************************************************************)
(* C20  When the first pass has finished, every satellite that sees an     *)
(* unassigned user either lists MAX_USERS_PER_SAT users or lists, on each  *)
(* of the colors, a user that interferes with it.                          *)
(***************************************************************************)
C20_GreedyMaximal ==
    Pass1Finished
    => \A u \in Keys(User_users) :
           ~Assigned(u)
           => \A i \in SatIndices :
                  Visible(Satellite_satellites[i], u)
                  => \/ Len(Satellite_satellites[i].assignments) = MAX_USERS_PER_SAT
                     \/ \A k \in 1..Len(COLORS) :
                            ~NoInterferer(Satellite_satellites[i], u, COLORS[k])

\* the first pass has finished and has left out a user that two satellites see,
\* both under capacity and both with an interfering user on every color
C20_Witness ==
    /\ Pass1Finished
    /\ \E u \in Keys(User_users) :
          /\ ~Assigned(u)
          /\ u \notin DOMAIN solution
          /\ \E i, j \in SatIndices :
                /\ i # j
                /\ Visible(Satellite_satellites[i], u)
                /\ Visible(Satellite_satellites[j], u)
                /\ Len(Satellite_satellites[i].assignments) < MAX_USERS_PER_SAT
                /\ Len(Satellite_satellites[j].assignments) < MAX_USERS_PER_SAT
                /\ \A k \in 1..Len(COLORS) :
                      /\ ConflictSet(Satellite_satellites[i], u, COLORS[k]) # {}
                      /\ ConflictSet(Satellite_satellites[j], u, COLORS[k]) # {}

====
